---- MODULE Spec2Model ----
(***************************************************************************)
(* resultr: the Result container (src/src/index.ts, class Result, Ok, Err) *)
(* and the adapter resultr, which turns a throwing or rejecting callable   *)
(* into a Result or a Promise of a Result.                                 *)
(*                                                                         *)
(* One behaviour of the model is one use of the library: either a direct   *)
(* Ok(v) / Err(e), or one call resultr(fn), followed by accessor calls on  *)
(* the Result that came out.                                               *)
(***************************************************************************)
EXTENDS Integers, Sequences, FiniteSets

\* Number of accessor calls (isOk, isErr, unwrap, unwrapErr) made on one Result.
MaxOps == 4

-----------------------------------------------------------------------------
(* JavaScript values.  t is the runtime shape, ref the object identity (0   *)
(* for primitives), n the numeric value of a number, s the characters of a *)
(* string or the message of an Error.                                      *)

Val(t, ref, n, s) == [t |-> t, ref |-> ref, n |-> n, s |-> s]

UNDEFINED == Val("undefined", 0, 0, "")

\* Values a callable may return, throw, fulfil or reject with.
Primitives ==
  { UNDEFINED,
    Val("number", 0, 42, ""),
    Val("string", 0, 0, "boom") }

\* {} ; Object.create(null) ; { then() {} } ; new Error("bad") ;
\* new SyntaxError("syntax") ; a Promise
PlainObject  == Val("object", 1, 0, "")
NullProto    == Val("nullproto", 2, 0, "")
Thenable     == Val("thenable", 3, 0, "")
SomeError    == Val("error", 4, 0, "bad")
SyntaxErr    == Val("error", 5, 0, "syntax")
ThePromise   == Val("promise", 6, 0, "")

Objects == { PlainObject, NullProto, Thenable, SomeError, SyntaxErr, ThePromise }

Values == Primitives \cup Objects

RECURSIVE MaxRef(_)
MaxRef(S) ==
  IF S = {} THEN 0
  ELSE LET x == CHOOSE y \in S : TRUE
           m == MaxRef(S \ {x})
       IN IF x.ref > m THEN x.ref ELSE m

\* First identity handed to an object created while the program runs.
HeapBase == MaxRef(Objects) + 1

\* new Error(msg), allocated at identity h
NewError(msg, h) == Val("error", h, 0, msg)

\* `x instanceof Error`
InstanceOfError(v) == v.t = "error"

\* Variant of InstanceOfPromise: a shape test ("has a then method").
HasThen(v) == v.t \in {"promise", "thenable"}
\* `x instanceof Promise`
InstanceOfPromise(v) == v.t = "promise"

\* A promise never fulfils with a thenable (resolving with one adopts its
\* state), so the value .then(Ok) hands to Ok is never one.
CanFulfilWith(v) == v.t \notin {"promise", "thenable"}

DigitChar == <<"0", "1", "2", "3", "4", "5", "6", "7", "8", "9">>

RECURSIVE NumberToString(_)
NumberToString(n) ==
  IF n < 10 THEN DigitChar[n + 1]
  ELSE NumberToString(n \div 10) \o DigitChar[(n % 10) + 1]

\* String(x): ok = FALSE when the conversion throws a TypeError (an object
\* with no way to a primitive, such as Object.create(null)).
String(v) ==
  CASE v.t = "undefined" -> [ok |-> TRUE, s |-> "undefined"]
    [] v.t = "number"    -> [ok |-> TRUE, s |-> NumberToString(v.n)]
    [] v.t = "string"    -> [ok |-> TRUE, s |-> v.s]
    [] v.t = "error"     -> [ok |-> TRUE, s |-> "Error: " \o v.s]
    [] v.t = "promise"   -> [ok |-> TRUE, s |-> "[object Promise]"]
    [] v.t = "nullproto" -> [ok |-> FALSE, s |-> ""]
    [] OTHER             -> [ok |-> TRUE, s |-> "[object Object]"]

ConvertTypeError(h) == NewError("Cannot convert object to primitive value", h)

-----------------------------------------------------------------------------
(* class Result                                                            *)

\* constructor(value?, error?)
ResultNew(value, error) == [value |-> value, error |-> error]

\* Variant of isOk: tests the value slot.
isOkByValue(r) == r.value # UNDEFINED
\* isOk(): this.error === undefined
isOk(r) == r.error = UNDEFINED

\* Variant of isErr: an independent test of the value slot.
isErrByValue(r) == r.value = UNDEFINED
\* isErr(): !this.isOk()
isErr(r) == ~isOk(r)

\* The outcome of a method call: the object after the call, how the call
\* ended ("return" or "raise") and the value returned or raised.
Outcome(self, how, v) == [self |-> self, how |-> how, v |-> v]

\* Variants of unwrap: one without the isErr() guard, one that empties the
\* value slot when it returns.
unwrapNoCheck(r) == Outcome(r, "return", r.value)
unwrapTake(r) ==
  IF isErr(r) THEN Outcome(r, "raise", r.error)
  ELSE Outcome(ResultNew(UNDEFINED, r.error), "return", r.value)
\* unwrap()
unwrap(r) ==
  IF isErr(r) THEN Outcome(r, "raise", r.error)
  ELSE Outcome(r, "return", r.value)

UnwrapErrMessage == "Called unwrapErr on an Ok result"

\* unwrapErr(); h is the identity of the Error it may create
unwrapErr(r, h) ==
  IF isOk(r) THEN Outcome(r, "raise", NewError(UnwrapErrMessage, h))
  ELSE Outcome(r, "return", r.error)

\* Ok(value)
Ok(value) == ResultNew(value, UNDEFINED)

\* Err(error)
Err(error) == ResultNew(UNDEFINED, error)

\* Variant of Normalize: wraps error-like payloads too.
NormalizeAlwaysWrap(e, h) ==
  IF String(e).ok THEN [how |-> "return", v |-> NewError(String(e).s, h)]
  ELSE [how |-> "raise", v |-> ConvertTypeError(h)]
\* error instanceof Error ? error : new Error(String(error))
\* "raise" when String(error) throws.
Normalize(e, h) ==
  IF InstanceOfError(e) THEN [how |-> "return", v |-> e]
  ELSE IF String(e).ok THEN [how |-> "return", v |-> NewError(String(e).s, h)]
  ELSE [how |-> "raise", v |-> ConvertTypeError(h)]

-----------------------------------------------------------------------------
VARIABLES
  entry,    \* which entry point was used: "none", "Ok", "Err", "resultr"
  arg,      \* <<v>>: the argument of Ok / Err
  pc,       \* position of the resultr call
  calls,    \* how many times fn has been invoked
  fnOut,    \* <<[does, v]>>: what fn did, "throw" v or "return" v
  ret,      \* what resultr handed back synchronously
  raised,   \* <<e>>: what resultr threw, or what its promise rejected with
  inner,    \* the promise fn returned
  mid,      \* inner.then(Ok)
  outer,    \* mid.catch(...), the promise resultr returns
  result,   \* <<r>>: the Result the caller holds
  heap,     \* identity of the next object created
  ops,      \* accessor calls made so far
  ans,      \* last answers of isOk() and isErr()
  last      \* last unwrap() / unwrapErr() call

vars == <<entry, arg, pc, calls, fnOut, ret, raised, inner, mid, outer,
          result, heap, ops, ans, last>>

\* A promise: st is "none" (not created), "pending", "fulfilled", "rejected";
\* v the fulfilment value or rejection payload when it is a plain value,
\* r = <<x>> when it fulfilled with the Result x.
Promise(st, v, r) == [st |-> st, v |-> v, r |-> r]
NoPromise == Promise("none", UNDEFINED, <<>>)

NoCall == [op |-> "none", how |-> "none", v |-> UNDEFINED]

Init ==
  /\ entry = "none"
  /\ arg = <<>>
  /\ pc = "Idle"
  /\ calls = 0
  /\ fnOut = <<>>
  /\ ret = "none"
  /\ raised = <<>>
  /\ inner = NoPromise
  /\ mid = NoPromise
  /\ outer = NoPromise
  /\ result = <<>>
  /\ heap = HeapBase
  /\ ops = 0
  /\ ans = [isOk |-> "none", isErr |-> "none"]
  /\ last = NoCall

adapterVars == <<pc, calls, fnOut, ret, raised, inner, mid, outer>>
accessorVars == <<ops, ans, last>>

-----------------------------------------------------------------------------
(* The constructors, called directly.                                      *)

OkCall ==
  /\ entry = "none"
  /\ \E v \in Values :
       /\ arg' = <<v>>
       /\ result' = <<Ok(v)>>
  /\ entry' = "Ok"
  /\ UNCHANGED <<adapterVars, accessorVars, heap>>

\* E extends Error: the argument is error-like.
ErrCall ==
  /\ entry = "none"
  /\ \E e \in {x \in Values : InstanceOfError(x)} :
       /\ arg' = <<e>>
       /\ result' = <<Err(e)>>
  /\ entry' = "Err"
  /\ UNCHANGED <<adapterVars, accessorVars, heap>>

-----------------------------------------------------------------------------
(* resultr(fn)                                                             *)

\* The caller calls resultr(fn).
ResultrCall ==
  /\ entry = "none"
  /\ entry' = "resultr"
  /\ pc' = "Pending"
  /\ UNCHANGED <<arg, calls, fnOut, ret, raised, inner, mid, outer, result,
                 heap, accessorVars>>

\* Variant of Invoke: fn is called a second time.
InvokeTwice ==
  /\ pc = "Pending"
  /\ pc' = "Invoking"
  /\ calls' = calls + 2
  /\ UNCHANGED <<entry, arg, fnOut, ret, raised, inner, mid, outer, result,
                 heap, accessorVars>>
\* try { const result = fn();   -- control enters fn
Invoke ==
  /\ pc = "Pending"
  /\ pc' = "Invoking"
  /\ calls' = calls + 1
  /\ UNCHANGED <<entry, arg, fnOut, ret, raised, inner, mid, outer, result,
                 heap, accessorVars>>

\* fn throws e: control goes to the catch block.
FnThrows ==
  /\ pc = "Invoking"
  /\ \E e \in Values : fnOut' = <<[does |-> "throw", v |-> e]>>
  /\ pc' = "Threw"
  /\ UNCHANGED <<entry, arg, calls, ret, raised, inner, mid, outer, result,
                 heap, accessorVars>>

\* fn returns v, and `result instanceof Promise` picks the branch.
FnReturns ==
  /\ pc = "Invoking"
  /\ \E v \in Values :
       /\ fnOut' = <<[does |-> "return", v |-> v]>>
       /\ IF InstanceOfPromise(v)
            THEN /\ pc' = "ReturnedAwaitable"
                 /\ inner' = Promise("pending", UNDEFINED, <<>>)
            ELSE /\ pc' = "ReturnedPlain"
                 /\ inner' = inner
  /\ UNCHANGED <<entry, arg, calls, ret, raised, mid, outer, result,
                 heap, accessorVars>>

\* } else { return Ok(result); }
ReturnPlain ==
  /\ pc = "ReturnedPlain"
  /\ result' = <<Ok(fnOut[1].v)>>
  /\ ret' = "result"
  /\ pc' = "Ok"
  /\ UNCHANGED <<entry, arg, calls, fnOut, raised, inner, mid, outer,
                 heap, accessorVars>>

\* catch (error) { return Err(error instanceof Error ? ... ); }
CatchBlock ==
  /\ pc = "Threw"
  /\ LET n == Normalize(fnOut[1].v, heap) IN
       IF n.how = "return"
         THEN /\ result' = <<Err(n.v)>>
              /\ ret' = "result"
              /\ raised' = raised
              /\ pc' = "Err"
         ELSE /\ result' = result
              /\ ret' = "throw"
              /\ raised' = <<n.v>>
              /\ pc' = "Raised"
  /\ heap' = heap + 1
  /\ UNCHANGED <<entry, arg, calls, fnOut, inner, mid, outer, accessorVars>>

\* return result.then(Ok).catch(error => ...): two promises are chained on
\* the one fn returned and the second is handed to the caller.
ChainPromise ==
  /\ pc = "ReturnedAwaitable"
  /\ ret = "none"
  /\ mid' = Promise("pending", UNDEFINED, <<>>)
  /\ outer' = Promise("pending", UNDEFINED, <<>>)
  /\ ret' = "promise"
  /\ UNCHANGED <<entry, arg, pc, calls, fnOut, raised, inner, result,
                 heap, accessorVars>>

\* The promise fn returned settles (the wrapped operation's doing).
InnerFulfills ==
  /\ inner.st = "pending"
  /\ \E v \in {x \in Values : CanFulfilWith(x)} :
       inner' = Promise("fulfilled", v, <<>>)
  /\ UNCHANGED <<entry, arg, pc, calls, fnOut, ret, raised, mid, outer,
                 result, heap, accessorVars>>

InnerRejects ==
  /\ inner.st = "pending"
  /\ \E e \in Values : inner' = Promise("rejected", e, <<>>)
  /\ UNCHANGED <<entry, arg, pc, calls, fnOut, ret, raised, mid, outer,
                 result, heap, accessorVars>>

\* The reaction of .then(Ok): Ok(v) on fulfilment, the rejection passes.
ThenOk ==
  /\ mid.st = "pending"
  /\ inner.st \in {"fulfilled", "rejected"}
  /\ mid' = IF inner.st = "fulfilled"
              THEN Promise("fulfilled", UNDEFINED, <<Ok(inner.v)>>)
              ELSE Promise("rejected", inner.v, <<>>)
  /\ UNCHANGED <<entry, arg, pc, calls, fnOut, ret, raised, inner, outer,
                 result, heap, accessorVars>>

\* The reaction of .catch(error => Err(...)): a fulfilment passes, a
\* rejection runs the handler; the caller's await then sees the outcome.
CatchHandler ==
  /\ outer.st = "pending"
  /\ mid.st \in {"fulfilled", "rejected"}
  /\ IF mid.st = "fulfilled"
       THEN /\ outer' = Promise("fulfilled", UNDEFINED, mid.r)
            /\ result' = mid.r
            /\ raised' = raised
            /\ pc' = IF isOk(mid.r[1]) THEN "Ok" ELSE "Err"
            /\ heap' = heap
       ELSE LET n == Normalize(mid.v, heap) IN
            /\ heap' = heap + 1
            /\ IF n.how = "return"
                 THEN /\ outer' = Promise("fulfilled", UNDEFINED, <<Err(n.v)>>)
                      /\ result' = <<Err(n.v)>>
                      /\ raised' = raised
                      /\ pc' = "Err"
                 ELSE /\ outer' = Promise("rejected", n.v, <<>>)
                      /\ result' = result
                      /\ raised' = <<n.v>>
                      /\ pc' = "Rejected"
  /\ UNCHANGED <<entry, arg, calls, fnOut, ret, inner, mid, accessorVars>>

-----------------------------------------------------------------------------
(* Accessor calls on the Result the caller holds.                          *)

Bool(b) == IF b THEN "true" ELSE "false"

IsOkCall ==
  /\ result # <<>>
  /\ ops < MaxOps
  /\ ans' = [ans EXCEPT !.isOk = Bool(isOk(result[1]))]
  /\ ops' = ops + 1
  /\ UNCHANGED <<entry, arg, adapterVars, result, heap, last>>

IsErrCall ==
  /\ result # <<>>
  /\ ops < MaxOps
  /\ ans' = [ans EXCEPT !.isErr = Bool(isErr(result[1]))]
  /\ ops' = ops + 1
  /\ UNCHANGED <<entry, arg, adapterVars, result, heap, last>>

UnwrapCall ==
  /\ result # <<>>
  /\ ops < MaxOps
  /\ LET o == unwrap(result[1]) IN
       /\ result' = <<o.self>>
       /\ last' = [op |-> "unwrap", how |-> o.how, v |-> o.v]
  /\ ops' = ops + 1
  /\ UNCHANGED <<entry, arg, adapterVars, heap, ans>>

UnwrapErrCall ==
  /\ result # <<>>
  /\ ops < MaxOps
  /\ LET o == unwrapErr(result[1], heap) IN
       /\ result' = <<o.self>>
       /\ last' = [op |-> "unwrapErr", how |-> o.how, v |-> o.v]
       /\ heap' = IF o.how = "raise" THEN heap + 1 ELSE heap
  /\ ops' = ops + 1
  /\ UNCHANGED <<entry, arg, adapterVars, ans>>

-----------------------------------------------------------------------------
Next ==
  \/ OkCall
  \/ ErrCall
  \/ ResultrCall
  \/ Invoke
  \/ FnThrows
  \/ FnReturns
  \/ ReturnPlain
  \/ CatchBlock
  \/ ChainPromise
  \/ InnerFulfills
  \/ InnerRejects
  \/ ThenOk
  \/ CatchHandler
  \/ IsOkCall
  \/ IsErrCall
  \/ UnwrapCall
  \/ UnwrapErrCall

Spec == Init /\ [][Next]_vars

-----------------------------------------------------------------------------
(* Properties.                                                             *)

\* The payload resultr had to normalize: what fn threw, or what the promise
\* fn returned rejected with.
Payload == IF fnOut[1].does = "throw" THEN fnOut[1].v ELSE inner.v

ExactlyOneSet(r) == (r.value # UNDEFINED) # (r.error # UNDEFINED)

\* C1: whatever fn throws synchronously, resultr does not throw: it returns
\* synchronously (no promise) a failure-tagged Result holding an error-like
\* object.
C1_SyncThrowReturnsErr ==
  (entry = "resultr" /\ fnOut # <<>> /\ fnOut[1].does = "throw" /\ pc # "Threw") =>
    /\ ret = "result"
    /\ raised = <<>>
    /\ result # <<>>
    /\ result[1].value = UNDEFINED
    /\ InstanceOfError(result[1].error)

\* C2: the promise resultr returns never rejects: it fulfils with Ok(v) when
\* the inner promise fulfils with v, and with a failure-tagged Result holding
\* an error-like object when the inner promise rejects.
C2_OuterPromiseNeverRejects ==
  /\ outer.st # "rejected"
  /\ (outer.st = "fulfilled" /\ inner.st = "fulfilled") =>
       outer.r = <<[value |-> inner.v, error |-> UNDEFINED]>>
  /\ (outer.st = "fulfilled" /\ inner.st = "rejected") =>
       /\ outer.r[1].value = UNDEFINED
       /\ InstanceOfError(outer.r[1].error)

C5_ExactlyOneSlotSet ==
  result # <<>> => ExactlyOneSet(result[1])

Rank(p) ==
  CASE p = "Idle" -> 0
    [] p = "Pending" -> 1
    [] p = "Invoking" -> 2
    [] p \in {"Threw", "ReturnedPlain", "ReturnedAwaitable"} -> 3
    [] OTHER -> 4

\* C8: fn is invoked exactly once, before resultr hands anything back; the
\* call goes Pending -> Invoking -> one of Threw, ReturnedPlain,
\* ReturnedAwaitable, never back to an earlier phase, and a terminal outcome
\* (Ok or Err), once reached, stays.
C8_InvokedOnceOneOutcome ==
  /\ [](/\ calls <= 1
        /\ (Rank(pc) >= 2 => calls = 1)
        /\ (ret # "none" => calls = 1)
        /\ (inner.st # "none" => calls = 1))
  /\ [][/\ (pc # pc' => Rank(pc') > Rank(pc))
        /\ (pc = "Pending" /\ pc' # pc => pc' = "Invoking")
        /\ (pc = "Invoking" /\ pc' # pc =>
              pc' \in {"Threw", "ReturnedPlain", "ReturnedAwaitable"})
        /\ (pc = "Threw" /\ pc' # pc => pc' \in {"Err", "Raised"})
        /\ (pc = "ReturnedPlain" /\ pc' # pc => pc' = "Ok")
        /\ (pc = "ReturnedAwaitable" /\ pc' # pc => pc' \in {"Ok", "Err", "Rejected"})
        /\ (pc \in {"Ok", "Err"} => pc' = pc /\ result' = result)
        /\ (Rank(pc) >= 2 => calls' = calls)]_vars

C8_AsyncCallReachedErr ==
  /\ pc = "Err"
  /\ inner.st = "rejected"
  /\ ret = "promise"
  /\ calls = 1
  /\ ops = MaxOps

\* C9: isOk() and isErr() never give the same answer on one Result, in any
\* state and after any accessor calls.
C9_IsErrNegatesIsOk ==
  /\ result # <<>> => isErr(result[1]) # isOk(result[1])
  /\ (ans.isOk # "none" /\ ans.isErr # "none") => ans.isOk # ans.isErr

C9_BothAnsweredAfterRaise ==
  /\ ans.isOk = "true"
  /\ ans.isErr = "false"
  /\ result # <<>>
  /\ result[1].value = UNDEFINED
  /\ last.how = "raise"

\* C10: no accessor call, returning or raising, changes a slot of the Result,
\* and isOk() keeps giving the answer it gave before.
C10_AccessorsChangeNothing ==
  [][/\ (result # <<>> => result' = result)
     /\ (ans.isOk # "none" => ans'.isOk = ans.isOk)
     /\ (ans.isErr # "none" => ans'.isErr = ans.isErr)]_vars

C10_AllAccessorsCalled ==
  /\ ops = MaxOps
  /\ ans.isOk = "true"
  /\ ans.isErr = "false"
  /\ last.op = "unwrap"
  /\ last.how = "return"
  /\ last.v = PlainObject
  /\ result = <<[value |-> PlainObject, error |-> UNDEFINED]>>

====
